---- MODULE Spec2Model ----
(***************************************************************************)
(* The xv6 write-ahead log (kernel/log.c): begin_op / log_write / end_op,  *)
(* commit, and boot-time recovery, over a disk whose block writes are      *)
(* atomic and synchronous (bwrite), with crashes between any two writes.   *)
(***************************************************************************)
EXTENDS Integers, Sequences, FiniteSets, TLC

(* ------------------------------------------------------------------------ *)
(* Bounds of the model                                                      *)
(* ------------------------------------------------------------------------ *)
\* scaled-down LOGSIZE (param.h): data slots of the log, entries of a header
LOGSIZE == 2
\* scaled-down MAXOPBLOCKS (param.h): distinct blocks one FS system call logs
MAXOPBLOCKS == 1
\* number of kernel threads
NPROC == 3
\* number of them that issue FS system calls in the runs with crashes and in
\* the runs under fairness; all of them do in the runs of BatchSpec
NCALLERS == 2
\* number of home blocks on the disk (block numbers 1..NBLOCKS)
NBLOCKS == 2
\* block contents range over 0..MaxData
MaxData == 1
\* number of crashes (power losses) a behaviour may contain
MaxCrashes == 2

Threads == 1..NPROC
Blocks == 1..NBLOCKS
Data == 0..MaxData
Slots == 0..(LOGSIZE - 1)

\* sb->nlog: blocks of the log region, header included (mkfs: LOGSIZE + 1)
nlog == LOGSIZE + 1

VARIABLES
  lh,           \* logV.lh: in-memory header [n, block]
  outstanding,  \* logV.outstanding
  committing,   \* logV.committing
  lock,         \* logV.lock: 0 when free, else the holding thread
  pc,           \* per thread: position in begin_op / log_write / end_op / commit
  tail,         \* per thread: the local `tail` of write_log / install_trans
  arg,          \* per thread: blockno of the buffer passed to log_write
  opBlocks,     \* per thread: distinct blocks logged by its current system call
  bootpc,       \* position of the boot path in initlog / recover_from_log
  btail,        \* the local `tail` of install_trans(1) on the boot path
  dhead,        \* on-disk header block [n, block]
  dlog,         \* on-disk log data slots, index i is block start+i+1
  home,         \* on-disk home blocks
  cache,        \* buffer-cache contents of the home blocks
  pin,          \* per block: bpin calls minus bunpin calls made by the log
  panicked,     \* "none", or the message of the panic that halted the kernel
  crashes,      \* number of crashes so far
  crashAt,      \* where the first crash since the last completed boot struck
  crashHome,    \* the home blocks on disk at the moment of that crash
  preTx,        \* home blocks on disk when the latest transaction began to commit
  txPost,       \* home blocks as the latest transaction's commit logged them
  committed,    \* per block: cache contents at the last commit that included it
  pendingLog,   \* blocks passed to log_write and not yet included in a commit
  snap,         \* the disk as the first of two successive recoveries left it
  recCrashes,   \* crashes that struck recovery since the last completed boot
  callers       \* the threads that issue system calls in this run

vars == <<lh, outstanding, committing, lock, pc, tail, arg, opBlocks, bootpc,
          btail, dhead, dlog, home, cache, pin, panicked, crashes, crashAt,
          crashHome, preTx, txPost, committed, pendingLog, snap, recCrashes,
          callers>>

memVars == <<lh, outstanding, committing, lock, pc, tail, arg, opBlocks, pin>>
diskVars == <<dhead, dlog, home>>
histVars == <<crashes, crashAt, crashHome, preTx, txPost, committed, pendingLog,
              snap, recCrashes, callers>>

(* ------------------------------------------------------------------------ *)
(* Data                                                                     *)
(* ------------------------------------------------------------------------ *)
\* struct logheader, zero-initialised (logV is a global)
ZeroHeader == [n |-> 0, block |-> [i \in Slots |-> 0]]

\* the freshly booted in-memory state of struct log and of the callers
ZeroPin == [b \in Blocks |-> 0]

\* no block has been part of a commit since boot
NeverCommitted == [b \in Blocks |-> -1]

\* wakeup(&logV): every thread asleep in begin_op becomes runnable and will
\* re-acquire the lock inside sleep() before it re-evaluates the loop
wakeup(p) == [t \in Threads |-> IF p[t] = "begin_sleep" THEN "begin_acquire" ELSE p[t]]

\* write_head: the header buffer is read from disk, n and block[0..n) are
\* overwritten from the in-memory header, and the block is written back
WriteHeadMutAll(mem, disk) == [n |-> mem.n, block |-> mem.block]
write_head(mem, disk) ==
  [n |-> mem.n,
   block |-> [i \in Slots |-> IF i < mem.n THEN mem.block[i] ELSE disk.block[i]]]

\* read_head: n and block[0..n) are copied from the disk header into memory
read_head(mem, disk) ==
  [n |-> disk.n,
   block |-> [i \in Slots |-> IF i < disk.n THEN disk.block[i] ELSE mem.block[i]]]

(* ------------------------------------------------------------------------ *)
(* Initial state: power-on with a freshly made file system                  *)
(* ------------------------------------------------------------------------ *)
Init ==
  /\ lh = ZeroHeader
  /\ outstanding = 0
  /\ committing = 0
  /\ lock = 0
  /\ pc = [t \in Threads |-> "idle"]
  /\ tail = [t \in Threads |-> 0]
  /\ arg = [t \in Threads |-> 0]
  /\ opBlocks = [t \in Threads |-> {}]
  /\ bootpc = "read_head"
  /\ btail = 0
  /\ dhead = ZeroHeader
  /\ dlog = [i \in Slots |-> 0]
  /\ home = [b \in Blocks |-> 0]
  /\ cache = [b \in Blocks |-> 0]
  /\ pin = ZeroPin
  /\ panicked = "none"
  /\ crashes = 0
  /\ crashAt = "none"
  /\ crashHome = [b \in Blocks |-> 0]
  /\ preTx = [b \in Blocks |-> 0]
  /\ txPost = [b \in Blocks |-> 0]
  /\ committed = NeverCommitted
  /\ pendingLog = {}
  /\ snap = <<>>
  /\ recCrashes = 0
  /\ callers = 1..NCALLERS

(* ------------------------------------------------------------------------ *)
(* Locking                                                                  *)
(* ------------------------------------------------------------------------ *)
AcquirePoints == {"begin_acquire", "end_acquire2"}

AfterAcquire(p) ==
  CASE p = "begin_acquire" -> "begin_loop"
    [] p = "end_acquire2"  -> "end_fin"

Running == bootpc = "done" /\ panicked = "none"

\* acquire(&logV.lock) at line 156, and the re-acquire that ends sleep()
acquire(t) ==
  /\ Running
  /\ pc[t] \in AcquirePoints
  /\ lock = 0
  /\ lock' = t
  /\ pc' = [pc EXCEPT ![t] = AfterAcquire(pc[t])]
  /\ UNCHANGED <<lh, outstanding, committing, tail, arg, opBlocks, bootpc, btail,
                 cache, pin, panicked>>
  /\ UNCHANGED diskVars
  /\ UNCHANGED histVars

(* ------------------------------------------------------------------------ *)
(* begin_op                                                                 *)
(* ------------------------------------------------------------------------ *)
\* line 117: a thread enters a FS system call and takes the lock.  The first
\* system call after a boot closes the record of the crash that preceded it.
BeginOpCall(t) ==
  /\ Running
  /\ t \in callers
  /\ pc[t] = "idle"
  /\ lock = 0
  /\ lock' = t
  /\ pc' = [pc EXCEPT ![t] = "begin_loop"]
  /\ IF crashAt # "none"
       THEN /\ crashAt' = "none"
            /\ crashHome' = home
            /\ preTx' = home
            /\ txPost' = home
            /\ recCrashes' = 0
       ELSE UNCHANGED <<crashAt, crashHome, preTx, txPost, recCrashes>>
  /\ UNCHANGED <<lh, outstanding, committing, tail, arg, opBlocks, bootpc,
                 btail, cache, pin, panicked, crashes, committed, pendingLog, snap,
                 callers>>
  /\ UNCHANGED diskVars

\* line 119
MustWaitMutNever(c) == FALSE
MustWait(c) == c # 0

\* line 121: this op might exhaust log space
NoSpaceMutNoPlusOne(n, out) == n + out * MAXOPBLOCKS > LOGSIZE
NoSpace(n, out) == n + (out + 1) * MAXOPBLOCKS > LOGSIZE

\* one evaluation of the while(1) body, under the lock
begin_op(t) ==
  /\ Running
  /\ pc[t] = "begin_loop"
  /\ lock = t
  /\ IF MustWait(committing) \/ NoSpace(lh.n, outstanding)
       THEN \* sleep(&logV, &logV.lock) releases the lock
            /\ pc' = [pc EXCEPT ![t] = "begin_sleep"]
            /\ UNCHANGED <<outstanding, opBlocks>>
       ELSE /\ outstanding' = outstanding + 1
            /\ pc' = [pc EXCEPT ![t] = "in_op"]
            /\ opBlocks' = [opBlocks EXCEPT ![t] = {}]
  /\ lock' = 0
  /\ UNCHANGED <<lh, committing, tail, arg, bootpc, btail, cache, pin, panicked>>
  /\ UNCHANGED diskVars
  /\ UNCHANGED histVars

(* ------------------------------------------------------------------------ *)
(* log_write                                                                *)
(* ------------------------------------------------------------------------ *)
\* the caller: bp = bread(b); modify bp->data; log_write(bp), up to the
\* acquire of line 199.  One system call logs at most MAXOPBLOCKS distinct
\* blocks.
LogWriteCall(t, b, v) ==
  /\ Running
  /\ pc[t] = "in_op"
  /\ Cardinality(opBlocks[t] \cup {b}) <= MAXOPBLOCKS
  /\ cache' = [cache EXCEPT ![b] = v]
  /\ arg' = [arg EXCEPT ![t] = b]
  /\ opBlocks' = [opBlocks EXCEPT ![t] = @ \cup {b}]
  /\ lock = 0
  /\ lock' = t
  /\ pc' = [pc EXCEPT ![t] = "lw_body"]
  /\ UNCHANGED <<lh, outstanding, committing, tail, bootpc, btail, pin,
                 panicked>>
  /\ UNCHANGED diskVars
  /\ UNCHANGED histVars

\* lines 205-208: the index at which the absorption scan stops
AbsorbIndexMutNoScan(h, b) == h.n
AbsorbIndex(h, b) ==
  IF \E i \in Slots : i < h.n /\ h.block[i] = b
    THEN CHOOSE i \in Slots :
           /\ i < h.n /\ h.block[i] = b
           /\ \A j \in Slots : (j < i) => h.block[j] # b
    ELSE h.n

\* line 211: bpin(b)
PinOnAppendMutNoPin(p, b) == p
PinOnAppend(p, b) == [p EXCEPT ![b] = @ + 1]

\* the body of log_write, under the lock
log_write(t) ==
  /\ Running
  /\ pc[t] = "lw_body"
  /\ lock = t
  /\ IF lh.n >= LOGSIZE \/ lh.n >= nlog - 1
       THEN /\ panicked' = "too big a transaction"
            /\ UNCHANGED <<lh, pin, lock, pc, arg, pendingLog>>
       ELSE IF outstanding < 1
       THEN /\ panicked' = "log_write outside of trans"
            /\ UNCHANGED <<lh, pin, lock, pc, arg, pendingLog>>
       ELSE LET i == AbsorbIndex(lh, arg[t]) IN
            /\ lh' = [n |-> IF i = lh.n THEN lh.n + 1 ELSE lh.n,
                      block |-> [lh.block EXCEPT ![i] = arg[t]]]
            /\ pin' = IF i = lh.n THEN PinOnAppend(pin, arg[t]) ELSE pin
            /\ lock' = 0
            /\ pc' = [pc EXCEPT ![t] = "in_op"]
            /\ arg' = [arg EXCEPT ![t] = 0]
            /\ pendingLog' = pendingLog \cup {arg[t]}
            /\ UNCHANGED panicked
  /\ UNCHANGED <<outstanding, committing, tail, opBlocks, bootpc, btail, cache>>
  /\ UNCHANGED diskVars
  /\ UNCHANGED <<crashes, crashAt, crashHome, preTx, txPost, committed, snap,
                 recCrashes, callers>>

(* ------------------------------------------------------------------------ *)
(* end_op                                                                   *)
(* ------------------------------------------------------------------------ *)
\* line 137: the system call ends and takes the lock
EndOpCall(t) ==
  /\ Running
  /\ pc[t] = "in_op"
  /\ lock = 0
  /\ lock' = t
  /\ pc' = [pc EXCEPT ![t] = "end_body"]
  /\ UNCHANGED <<lh, outstanding, committing, tail, arg, opBlocks, bootpc,
                 btail, cache, pin, panicked>>
  /\ UNCHANGED diskVars
  /\ UNCHANGED histVars

\* lines 141-143: the value of logV.committing after the test on outstanding
SetCommittingMutForgot(c, out) == c
SetCommitting(c, out) == IF out = 0 THEN 1 ELSE c

\* lines 141-142: do_commit, set when this was the last outstanding operation
DoCommitMutAlways(out) == TRUE
DoCommit(out) == out = 0

\* line 148: the wakeup of an end_op that does not commit
WakeOnReleaseMutNone(p) == p
WakeOnRelease(p) == wakeup(p)

\* lines 137-150: the first critical section of end_op
end_op(t) ==
  /\ Running
  /\ pc[t] = "end_body"
  /\ lock = t
  /\ outstanding' = outstanding - 1
  /\ IF committing # 0
       THEN /\ panicked' = "logV.committing"
            /\ UNCHANGED <<committing, lock, pc>>
       ELSE /\ committing' = SetCommitting(committing, outstanding')
            /\ pc' = IF DoCommit(outstanding')
                       THEN [pc EXCEPT ![t] = "commit"]
                       ELSE [WakeOnRelease(pc) EXCEPT ![t] = "idle"]
            /\ lock' = 0
            /\ UNCHANGED panicked
  /\ UNCHANGED <<lh, tail, arg, opBlocks, bootpc, btail, cache, pin>>
  /\ UNCHANGED diskVars
  /\ UNCHANGED histVars

\* line 158, the wakeup that follows the commit
WakeAfterCommitMutNone(p) == p
WakeAfterCommit(p) == wakeup(p)

\* lines 156-159: the second critical section of end_op
end_op_finish(t) ==
  /\ Running
  /\ pc[t] = "end_fin"
  /\ lock = t
  /\ committing' = 0
  /\ pc' = [WakeAfterCommit(pc) EXCEPT ![t] = "idle"]
  /\ lock' = 0
  \* the transaction is over: the next one starts from what is on disk now
  /\ preTx' = home
  /\ txPost' = home
  /\ UNCHANGED <<lh, outstanding, tail, arg, opBlocks, bootpc, btail, cache, pin,
                 panicked, crashes, crashAt, crashHome, committed, pendingLog, snap,
                 recCrashes, callers>>
  /\ UNCHANGED diskVars

(* ------------------------------------------------------------------------ *)
(* commit, write_log, write_head, install_trans (no lock held)              *)
(* ------------------------------------------------------------------------ *)
\* lines 179-183: the order of the steps of a non-empty commit
CommitStepsMutInstallFirst ==
  <<"write_log", "install", "write_head", "clear", "write_clear">>
CommitSteps == <<"write_log", "write_head", "install", "clear", "write_clear">>

CommitPcs == {"write_log", "write_head", "install", "clear", "write_clear"}

\* the position that follows step p of commit; after the last one end_op
\* goes on to re-acquire the lock (line 156)
NextCommitPc(p) ==
  LET k == CHOOSE i \in 1..Len(CommitSteps) : CommitSteps[i] = p
  IN IF k < Len(CommitSteps) THEN CommitSteps[k + 1] ELSE "end_acquire2"

\* the blocks named by header h
Logged(h) == {h.block[i] : i \in {j \in Slots : j < h.n}}

\* line 179: commit() does its work only for a non-empty transaction
HasWorkMutAlways(n) == TRUE
HasWork(n) == n > 0

\* line 178: commit() entered by the thread that set committing
commit(t) ==
  /\ Running
  /\ pc[t] = "commit"
  /\ IF HasWork(lh.n)
       THEN pc' = [pc EXCEPT ![t] = CommitSteps[1]]
       ELSE pc' = [pc EXCEPT ![t] = "end_acquire2"]
  /\ tail' = [tail EXCEPT ![t] = 0]
  /\ preTx' = home
  /\ txPost' = [b \in Blocks |-> IF b \in Logged(lh) THEN cache[b] ELSE home[b]]
  /\ committed' = [b \in Blocks |-> IF b \in Logged(lh) THEN cache[b] ELSE committed[b]]
  /\ pendingLog' = pendingLog \ Logged(lh)
  /\ crashAt' = "none"
  /\ UNCHANGED <<lh, outstanding, committing, lock, arg, opBlocks, bootpc, btail,
                 cache, pin, panicked, crashes, crashHome, snap, recCrashes,
                 callers>>
  /\ UNCHANGED diskVars

\* line 170: what write_log copies into the log slot for home block b
LogDataMutFromDisk(c, h, b) == h[b]
LogData(c, h, b) == c[b]

\* lines 167-174: one iteration of write_log's loop, ending in bwrite(to)
write_log(t) ==
  /\ Running
  /\ pc[t] = "write_log"
  /\ tail[t] < lh.n
  /\ dlog' = [dlog EXCEPT ![tail[t]] = LogData(cache, home, lh.block[tail[t]])]
  /\ IF tail[t] + 1 < lh.n
       THEN /\ tail' = [tail EXCEPT ![t] = @ + 1]
            /\ UNCHANGED pc
       ELSE /\ tail' = [tail EXCEPT ![t] = 0]
            /\ pc' = [pc EXCEPT ![t] = NextCommitPc("write_log")]
  /\ UNCHANGED <<lh, outstanding, committing, lock, arg, opBlocks, bootpc, btail,
                 cache, pin, panicked, dhead, home>>
  /\ UNCHANGED histVars

\* line 180: write_head() of a header with n > 0, the commit point
write_head_commit(t) ==
  /\ Running
  /\ pc[t] = "write_head"
  /\ dhead' = write_head(lh, dhead)
  /\ tail' = [tail EXCEPT ![t] = 0]
  /\ pc' = [pc EXCEPT ![t] = NextCommitPc("write_head")]
  /\ UNCHANGED <<lh, outstanding, committing, lock, arg, opBlocks, bootpc, btail,
                 cache, pin, panicked, dlog, home>>
  /\ UNCHANGED histVars

\* line 70: the log slot install_trans reads for entry i
InstallSlotMutOffByOne(i) == (i + 1) % LOGSIZE
InstallSlot(i) == i

\* lines 74-75: if (recovering == 0) bunpin(dbuf)
InstallUnpinMutAlways(p, b, recovering) == [p EXCEPT ![b] = @ - 1]
InstallUnpin(p, b, recovering) ==
  IF recovering = 0 THEN [p EXCEPT ![b] = @ - 1] ELSE p

\* lines 69-78 with recovering = 0: one iteration, ending in bwrite(dbuf)
\* and bunpin(dbuf)
install_trans(t) ==
  /\ Running
  /\ pc[t] = "install"
  /\ tail[t] < lh.n
  /\ LET b == lh.block[tail[t]] IN
       /\ home' = [home EXCEPT ![b] = dlog[InstallSlot(tail[t])]]
       /\ cache' = [cache EXCEPT ![b] = dlog[InstallSlot(tail[t])]]
       /\ pin' = InstallUnpin(pin, b, 0)
  /\ IF tail[t] + 1 < lh.n
       THEN /\ tail' = [tail EXCEPT ![t] = @ + 1]
            /\ UNCHANGED pc
       ELSE /\ tail' = [tail EXCEPT ![t] = 0]
            /\ pc' = [pc EXCEPT ![t] = NextCommitPc("install")]
  /\ UNCHANGED <<lh, outstanding, committing, lock, arg, opBlocks, bootpc, btail,
                 panicked, dhead, dlog>>
  /\ UNCHANGED histVars

\* line 182: lh.n = 0, stored without the lock
clear_n(t) ==
  /\ Running
  /\ pc[t] = "clear"
  /\ lh' = [lh EXCEPT !.n = 0]
  /\ pc' = [pc EXCEPT ![t] = NextCommitPc("clear")]
  /\ UNCHANGED <<outstanding, committing, lock, tail, arg, opBlocks, bootpc, btail,
                 cache, pin, panicked>>
  /\ UNCHANGED diskVars
  /\ UNCHANGED histVars

\* line 183: write_head() erases the transaction from the log
clear_head(t) ==
  /\ Running
  /\ pc[t] = "write_clear"
  /\ dhead' = write_head(lh, dhead)
  /\ pc' = [pc EXCEPT ![t] = NextCommitPc("write_clear")]
  /\ UNCHANGED <<lh, outstanding, committing, lock, tail, arg, opBlocks, bootpc,
                 btail, cache, pin, panicked, dlog, home>>
  /\ UNCHANGED histVars

(* ------------------------------------------------------------------------ *)
(* initlog / recover_from_log, run by the boot path before any system call  *)
(* ------------------------------------------------------------------------ *)
\* line 110: install_trans(1) runs its loop when the header read has n > 0
RecoverAfterReadMutNoInstall(n) == "clear"
RecoverAfterRead(n) == IF n > 0 THEN "install" ELSE "clear"

\* line 109: read_head()
recover_read_head ==
  /\ bootpc = "read_head"
  /\ lh' = read_head(lh, dhead)
  /\ btail' = 0
  /\ bootpc' = RecoverAfterRead(lh'.n)
  /\ UNCHANGED <<outstanding, committing, lock, pc, tail, arg, opBlocks, cache,
                 pin, panicked>>
  /\ UNCHANGED diskVars
  /\ UNCHANGED histVars

\* line 110: one iteration of install_trans(1); no bunpin
recover_install ==
  /\ bootpc = "install"
  /\ btail < lh.n
  /\ LET b == lh.block[btail] IN
       /\ home' = [home EXCEPT ![b] = dlog[InstallSlot(btail)]]
       /\ cache' = [cache EXCEPT ![b] = dlog[InstallSlot(btail)]]
       /\ pin' = InstallUnpin(pin, b, 1)
  /\ btail' = btail + 1
  /\ bootpc' = IF btail + 1 < lh.n THEN "install" ELSE "clear"
  /\ UNCHANGED <<lh, outstanding, committing, lock, pc, tail, arg, opBlocks,
                 panicked, dhead, dlog>>
  /\ UNCHANGED histVars

\* line 111: lh.n = 0
recover_clear_n ==
  /\ bootpc = "clear"
  /\ lh' = [lh EXCEPT !.n = 0]
  /\ bootpc' = "write_clear"
  /\ UNCHANGED <<outstanding, committing, lock, pc, tail, arg, opBlocks, btail,
                 cache, pin, panicked>>
  /\ UNCHANGED diskVars
  /\ UNCHANGED histVars

\* line 112: write_head() clears the log; initlog returns
recover_clear ==
  /\ bootpc = "write_clear"
  /\ dhead' = write_head(lh, dhead)
  /\ bootpc' = "done"
  /\ UNCHANGED <<lh, outstanding, committing, lock, pc, tail, arg, opBlocks, btail,
                 cache, pin, panicked, dlog, home>>
  /\ UNCHANGED histVars

(* ------------------------------------------------------------------------ *)
(* Crash: power is lost between two disk writes, and the machine reboots    *)
(* ------------------------------------------------------------------------ *)
\* where the crash strikes: the position of the committing thread, "ops"
\* when no thread is inside commit(), "boot" during initlog
CrashStage ==
  IF bootpc # "done" THEN "boot"
  ELSE IF \E t \in Threads : pc[t] \in CommitPcs \cup {"end_acquire2", "end_fin"}
    THEN pc[CHOOSE t \in Threads : pc[t] \in CommitPcs \cup {"end_acquire2", "end_fin"}]
    ELSE "ops"

Crash ==
  /\ crashes < MaxCrashes
  /\ crashes' = crashes + 1
  \* memory is lost: logV and every thread start afresh
  /\ lh' = ZeroHeader
  /\ outstanding' = 0
  /\ committing' = 0
  /\ lock' = 0
  /\ pc' = [t \in Threads |-> "idle"]
  /\ tail' = [t \in Threads |-> 0]
  /\ arg' = [t \in Threads |-> 0]
  /\ opBlocks' = [t \in Threads |-> {}]
  /\ pin' = ZeroPin
  /\ panicked' = "none"
  \* the buffer cache is empty: bread() will return what is on disk
  /\ cache' = home
  /\ bootpc' = "read_head"
  /\ btail' = 0
  /\ UNCHANGED diskVars
  \* a crash during recovery keeps the record of the first crash
  /\ IF bootpc = "done" \/ crashAt = "none"
       THEN /\ crashAt' = CrashStage
            /\ crashHome' = home
       ELSE UNCHANGED <<crashAt, crashHome>>
  \* no transaction was being committed: nothing was logged
  /\ IF CrashStage = "ops"
       THEN preTx' = home /\ txPost' = home
       ELSE UNCHANGED <<preTx, txPost>>
  /\ committed' = NeverCommitted
  /\ pendingLog' = {}
  /\ recCrashes' = IF bootpc = "done" THEN 0 ELSE recCrashes + 1
  /\ UNCHANGED <<snap, callers>>

(* ------------------------------------------------------------------------ *)
(* Specification                                                            *)
(* ------------------------------------------------------------------------ *)
ThreadStep(t) ==
  \/ acquire(t)
  \/ BeginOpCall(t)
  \/ begin_op(t)
  \/ \E b \in Blocks, v \in Data : LogWriteCall(t, b, v)
  \/ log_write(t)
  \/ EndOpCall(t)
  \/ end_op(t)
  \/ commit(t)
  \/ write_log(t)
  \/ write_head_commit(t)
  \/ install_trans(t)
  \/ clear_n(t)
  \/ clear_head(t)
  \/ end_op_finish(t)

Recover ==
  \/ recover_read_head
  \/ recover_install
  \/ recover_clear_n
  \/ recover_clear

Next ==
  \/ \E t \in Threads : ThreadStep(t)
  \/ Recover
  \/ Crash

Spec == Init /\ [][Next]_vars

(* ------------------------------------------------------------------------ *)
(* Admission without crashes, under fair scheduling                         *)
(* ------------------------------------------------------------------------ *)
\* the state once initlog has returned on a freshly made file system
LiveInit ==
  /\ lh = ZeroHeader
  /\ outstanding = 0
  /\ committing = 0
  /\ lock = 0
  /\ pc = [t \in Threads |-> "idle"]
  /\ tail = [t \in Threads |-> 0]
  /\ arg = [t \in Threads |-> 0]
  /\ opBlocks = [t \in Threads |-> {}]
  /\ bootpc = "done"
  /\ btail = 0
  /\ dhead = ZeroHeader
  /\ dlog = [i \in Slots |-> 0]
  /\ home = [b \in Blocks |-> 0]
  /\ cache = [b \in Blocks |-> 0]
  /\ pin = ZeroPin
  /\ panicked = "none"
  /\ crashes = 0
  /\ crashAt = "none"
  /\ crashHome = [b \in Blocks |-> 0]
  /\ preTx = [b \in Blocks |-> 0]
  /\ txPost = [b \in Blocks |-> 0]
  /\ committed = NeverCommitted
  /\ pendingLog = {}
  /\ snap = <<>>
  /\ recCrashes = 0
  /\ callers = 1..NCALLERS

LiveNext == \E t \in Threads : ThreadStep(t)

\* the steps of a thread that holds the lock or is inside commit(): nothing
\* another thread does disables them
Proceed(t) ==
  \/ begin_op(t)
  \/ log_write(t)
  \/ end_op(t)
  \/ commit(t)
  \/ write_log(t)
  \/ write_head_commit(t)
  \/ install_trans(t)
  \/ clear_n(t)
  \/ clear_head(t)
  \/ end_op_finish(t)

\* Every runnable thread is scheduled again and again; a thread that spins
\* for the lock gets it, the lock being released again and again; and every
\* admitted system call ends: it calls end_op after finitely many log_writes.
\* Entering a new system call and calling log_write are the caller's choice.
LiveSpec ==
  /\ LiveInit
  /\ [][LiveNext]_vars
  /\ \A t \in Threads :
       /\ WF_vars(Proceed(t))
       /\ SF_vars(acquire(t))
       /\ SF_vars(EndOpCall(t))

(* ------------------------------------------------------------------------ *)
(* Group commit: every thread issues system calls, no crash                 *)
(* ------------------------------------------------------------------------ *)
\* the state once initlog has returned on a freshly made file system, with
\* all NPROC threads about to issue system calls
BatchInit ==
  /\ lh = ZeroHeader
  /\ outstanding = 0
  /\ committing = 0
  /\ lock = 0
  /\ pc = [t \in Threads |-> "idle"]
  /\ tail = [t \in Threads |-> 0]
  /\ arg = [t \in Threads |-> 0]
  /\ opBlocks = [t \in Threads |-> {}]
  /\ bootpc = "done"
  /\ btail = 0
  /\ dhead = ZeroHeader
  /\ dlog = [i \in Slots |-> 0]
  /\ home = [b \in Blocks |-> 0]
  /\ cache = [b \in Blocks |-> 0]
  /\ pin = ZeroPin
  /\ panicked = "none"
  /\ crashes = 0
  /\ crashAt = "none"
  /\ crashHome = [b \in Blocks |-> 0]
  /\ preTx = [b \in Blocks |-> 0]
  /\ txPost = [b \in Blocks |-> 0]
  /\ committed = NeverCommitted
  /\ pendingLog = {}
  /\ snap = <<>>
  /\ recCrashes = 0
  /\ callers = Threads

BatchSpec == BatchInit /\ [][LiveNext]_vars

(* ------------------------------------------------------------------------ *)
(* Recovery run twice on an arbitrary disk                                  *)
(* ------------------------------------------------------------------------ *)
\* a header whose n entries name home blocks; the entries at and beyond n
\* are whatever an older transaction left there
ValidHeaders ==
  {h \in [n : 0..LOGSIZE, block : [Slots -> 0..NBLOCKS]] :
     \A i \in Slots : i < h.n => h.block[i] \in Blocks}

RecInit ==
  /\ dhead \in ValidHeaders
  /\ dlog \in [Slots -> Data]
  /\ home \in [Blocks -> Data]
  /\ cache = home
  /\ lh = ZeroHeader
  /\ outstanding = 0
  /\ committing = 0
  /\ lock = 0
  /\ pc = [t \in Threads |-> "idle"]
  /\ tail = [t \in Threads |-> 0]
  /\ arg = [t \in Threads |-> 0]
  /\ opBlocks = [t \in Threads |-> {}]
  /\ bootpc = "read_head"
  /\ btail = 0
  /\ pin = ZeroPin
  /\ panicked = "none"
  /\ crashes = 0
  /\ crashAt = "none"
  /\ crashHome = home
  /\ preTx = home
  /\ txPost = home
  /\ committed = NeverCommitted
  /\ pendingLog = {}
  /\ snap = <<>>
  /\ recCrashes = 0
  /\ callers = 1..NCALLERS

\* recover_from_log is run a second time: called again at once, or by
\* initlog after a reboot that found memory zeroed and the cache empty
RecoverAgain ==
  /\ bootpc = "done"
  /\ snap = <<>>
  /\ snap' = <<dhead, dlog, home>>
  /\ bootpc' = "read_head"
  /\ \/ UNCHANGED <<lh, cache>>
     \/ lh' = ZeroHeader /\ cache' = home
  /\ UNCHANGED <<outstanding, committing, lock, pc, tail, arg, opBlocks, btail,
                 pin, panicked, crashes, crashAt, crashHome, preTx, txPost,
                 committed, pendingLog, recCrashes, callers>>
  /\ UNCHANGED diskVars

RecNext == Recover \/ RecoverAgain

RecSpec == RecInit /\ [][RecNext]_vars

(* ------------------------------------------------------------------------ *)
(* Properties                                                               *)
(* ------------------------------------------------------------------------ *)
Booted == bootpc = "done"

\* C1: crash atomicity.  Once initlog has completed after a crash (or a run
\* of crashes), the home blocks on disk are either all as they were before
\* the interrupted transaction or all as that transaction logged them.
C1_CrashAtomicity ==
  (Booted /\ crashAt # "none") => (home = preTx \/ home = txPost)

\* a crash struck install_trans when only part of a transaction was
\* installed, and recovery has completed the installation
C1_Witness ==
  /\ Booted
  /\ crashAt = "install"
  /\ crashHome # preTx
  /\ crashHome # txPost
  /\ home = txPost

\* C2: without a crash, whenever the log is quiescent every block passed to
\* log_write has been included in a commit, and each home block that a
\* commit included holds on disk the cache contents it had at the last such
\* commit.
C2_CommittedContents ==
  (Booted /\ outstanding = 0 /\ committing = 0) =>
     /\ pendingLog = {}
     /\ \A b \in Blocks : committed[b] # -1 => home[b] = committed[b]

\* a transaction that logged both home blocks with new contents has been
\* written to both log slots and committed, and the log is quiescent again
C2_Witness ==
  /\ Booted /\ outstanding = 0 /\ committing = 0 /\ crashes = 0
  /\ \A t \in Threads : pc[t] = "idle"
  /\ \A b \in Blocks : committed[b] = 1 /\ home[b] = 1
  /\ \A i \in Slots : dlog[i] = 1

\* C3: reservation.  In the state in which a begin_op call returns,
\* lh.n + outstanding * MAXOPBLOCKS <= LOGSIZE.
C3_Reservation ==
  [][\A t \in Threads :
       (pc[t] = "begin_loop" /\ pc'[t] = "in_op") =>
          lh'.n + outstanding' * MAXOPBLOCKS <= LOGSIZE]_vars

\* a begin_op has returned with the log fully reserved while another caller
\* sleeps in begin_op for lack of log space
C3_Witness ==
  /\ committing = 0
  /\ \E t, u \in Threads : pc[t] = "begin_sleep" /\ pc[u] = "in_op"
  /\ lh.n + outstanding * MAXOPBLOCKS = LOGSIZE

\* C4: no log overflow.  When every system call logs at most MAXOPBLOCKS
\* distinct blocks between its begin_op and end_op and the log region has
\* LOGSIZE data slots, no log_write reaches the "too big a transaction"
\* panic.
C4_NoOverflowPanic == panicked # "too big a transaction"

\* C5 as stated: liveness of admission.  Under fair scheduling, when every
\* admitted system call eventually calls end_op, every thread asleep in
\* begin_op is eventually admitted (runs of a kernel halted by a panic are
\* left aside).
C5_EveryWaiterAdmitted ==
  \A t \in Threads :
    (pc[t] = "begin_sleep") ~> (pc[t] = "in_op" \/ panicked # "none")

\* C5, amended: under fair scheduling, when every admitted system call
\* eventually calls end_op, every thread asleep in begin_op is eventually
\* woken and evaluates the admission test again under the lock, unless the
\* kernel has panicked.
C5_EveryWaiterWoken ==
  \A t \in Threads :
    (pc[t] = "begin_sleep") ~> (pc[t] = "begin_loop" \/ panicked # "none")

\* a thread that slept in begin_op has been woken by the wakeup that ends a
\* commit and is about to take the lock again
C5_Witness ==
  /\ committing = 0
  /\ outstanding = 0
  /\ \E t, u \in Threads : pc[t] = "begin_acquire" /\ pc[u] = "idle"

\* C6: commit point.  After a crash that struck before the write_head of
\* line 180 completed, initlog leaves every home block with its
\* pre-transaction contents; after a crash that struck once it had
\* completed, initlog leaves every logged home block with the transaction's
\* contents and the on-disk header with n = 0.
C6_CommitPoint ==
  Booted =>
    /\ crashAt \in {"boot", "ops", "write_log", "write_head"} => home = preTx
    /\ crashAt \in {"install", "clear", "write_clear", "end_acquire2", "end_fin"} =>
         (home = txPost /\ dhead.n = 0)

\* a crash struck between the commit-point write_head and the first write
\* of install_trans, and recovery has installed the whole transaction
C6_Witness ==
  /\ Booted
  /\ crashAt = "install"
  /\ crashHome = preTx
  /\ \A b \in Blocks : txPost[b] # preTx[b]
  /\ home = txPost
  /\ dhead.n = 0

\* C7: idempotence of recovery.  On every disk, a second run of
\* recover_from_log leaves header, log slots and home blocks as the first
\* run left them.
C7_RecoveryIdempotent ==
  (Booted /\ snap # <<>>) => <<dhead, dlog, home>> = snap

\* recovery has run twice on a disk whose header named two blocks to
\* install, and the first run changed the home blocks
C7_Witness ==
  /\ Booted
  /\ snap # <<>>
  /\ snap[1].n = 0
  /\ \A i \in Slots : snap[1].block[i] \in Blocks
  /\ snap[1].block[0] # snap[1].block[1]
  /\ snap[3] # crashHome
  /\ \A i \in Slots : snap[3][snap[1].block[i]] = dlog[i]

\* C8: I1.  Whenever the lock is free, committing implies outstanding = 0,
\* and end_op never reaches its panic on committing.
C8_CommitOnlyWhenIdle ==
  /\ (lock = 0 /\ committing # 0) => outstanding = 0
  /\ panicked # "logV.committing"

\* a commit is installing while another thread, refused by begin_op, sleeps
C8_Witness ==
  /\ lock = 0
  /\ committing = 1
  /\ \E t, u \in Threads : pc[t] = "install" /\ pc[u] = "begin_sleep"

\* the threads that are executing commit()
InCommit == {t \in Threads : pc[t] \in CommitPcs \cup {"commit"}}

\* C9: single committer.  At most one thread is executing commit().
C9_SingleCommitter == Cardinality(InCommit) <= 1

\* one thread is in write_log while another is inside begin_op under the
\* lock and will find committing set
C9_Witness ==
  \E t, u \in Threads :
    /\ pc[t] = "write_log" /\ tail[t] = 1
    /\ pc[u] = "begin_loop"

\* C10: mandatory ordering.  (a) when the header with n > 0 is written every
\* log slot of the transaction already holds its block; (b) a home block is
\* written only under an on-disk header with n > 0; (c) when the header is
\* cleared every home block it names already holds its log slot; (d) a
\* log_write pins a buffer only under an on-disk header with n = 0.
C10_Ordering ==
  [][/\ (dhead.n = 0 /\ dhead'.n > 0) =>
          \A i \in Slots : i < dhead'.n => dlog[i] = cache[dhead'.block[i]]
     /\ (home' # home) => dhead.n > 0
     /\ (dhead.n > 0 /\ dhead'.n = 0) =>
          \A i \in Slots : i < dhead.n => home[dhead.block[i]] = dlog[i]
     /\ (\E b \in Blocks : pin'[b] > pin[b]) => dhead.n = 0]_vars

\* a commit of two blocks has gone through write_log, the commit point,
\* install_trans and the header clear, in a run without a crash
C10_Witness ==
  /\ crashes = 0
  /\ \E t \in Threads : pc[t] = "end_acquire2"
  /\ \A b \in Blocks : txPost[b] # preTx[b]
  /\ home = txPost
  /\ dhead.n = 0

\* C11: I6.  After initlog, the on-disk header has n > 0 only while a thread
\* is between the commit-point write_head of line 180 and the clearing
\* write_head of line 183 (it is about to run install_trans, line 182 or
\* that write_head);
\* at every other time, and whenever no commit is running, it has n = 0.
C11_HeaderNonZeroOnlyInCommit ==
  Booted =>
    /\ dhead.n > 0 =>
         \E t \in Threads : pc[t] \in {"install", "clear", "write_clear"}
    /\ (\A t \in Threads : pc[t] \notin {"install", "clear", "write_clear"}) =>
         dhead.n = 0
    /\ committing = 0 => dhead.n = 0

\* a commit of two blocks is past its commit point and has installed the
\* first block: the on-disk header names both
C11_Witness ==
  /\ Booted
  /\ dhead.n = LOGSIZE
  /\ \E t \in Threads : pc[t] = "install" /\ tail[t] = 1

\* the entries lh.block[0..lh.n) of header h are pairwise distinct
Distinct(h) ==
  \A i, j \in Slots : (i < j /\ j < h.n) => h.block[i] # h.block[j]

\* C12: absorption and I4.  The block numbers lh.block[0..lh.n) are always
\* pairwise distinct; a log_write on a block already among them leaves lh.n
\* and the pin counts unchanged; a log_write on a block not among them
\* returns having stored it at index lh.n and incremented lh.n by 1, the
\* earlier entries unchanged.
C12_Absorption ==
  /\ []Distinct(lh)
  /\ [][\A t \in Threads :
          (pc[t] = "lw_body" /\ (pc'[t] = "in_op" \/ panicked' # "none")) =>
             IF arg[t] \in Logged(lh)
               THEN lh'.n = lh.n /\ pin' = pin /\ Logged(lh') = Logged(lh)
               ELSE /\ pc'[t] = "in_op"
                    /\ lh'.n = lh.n + 1
                    /\ lh'.block[lh.n] = arg[t]
                    /\ \A i \in Slots : i < lh.n => lh'.block[i] = lh.block[i]]_vars

\* two system calls of one transaction have both logged the same block: it
\* is in the header once and pinned once
C12_Witness ==
  \E t, u \in Threads : \E b \in Blocks :
    /\ t # u
    /\ pc[t] = "in_op" /\ pc[u] = "in_op"
    /\ opBlocks[t] = {b} /\ opBlocks[u] = {b}
    /\ lh.n = 1 /\ lh.block[0] = b
    /\ pin[b] = 1

\* entry i of lh has been written home by the install_trans of the running
\* commit (which then unpinned its buffer)
Installed(i) ==
  \E t \in Threads :
    (pc[t] = "install" /\ i < tail[t]) \/ pc[t] \in {"clear", "write_clear"}

\* C13 as stated: I5.  Whenever the lock is not held, every block among
\* lh.block[0..lh.n) has a pin count of at least 1.
C13_LoggedPinned ==
  lock = 0 => \A i \in Slots : i < lh.n => pin[lh.block[i]] >= 1

\* C13, amended: once initlog has completed, whenever the lock is not held,
\* every block among lh.block[0..lh.n) that the running commit has not yet
\* installed has a pin count of at least 1.
C13_UninstalledPinned ==
  (Booted /\ lock = 0) =>
     \A i \in Slots : (i < lh.n /\ ~Installed(i)) => pin[lh.block[i]] >= 1

\* install_trans has installed and unpinned the first of two logged blocks;
\* the second is still pinned and lh.n still counts both
C13_Witness ==
  /\ Booted /\ lock = 0
  /\ lh.n = LOGSIZE
  /\ \E t \in Threads : pc[t] = "install" /\ tail[t] = 1
  /\ pin[lh.block[0]] = 0
  /\ pin[lh.block[1]] = 1

\* the positions whose next step reads or writes outstanding, committing or
\* lh inside begin_op (lines 119-124), log_write (lines 200-212) and end_op
\* (lines 138-148 and 157)
LockedPcs == {"begin_loop", "lw_body", "end_body", "end_fin"}

\* the positions whose next step reads or writes lh inside commit, write_log,
\* write_head and install_trans (lines 179-182, 168-169, 99-102, 69-71)
CommitPathPcs == CommitPcs \cup {"commit"}

\* C14 as stated: critical-section discipline.  A thread about to read or
\* write outstanding, committing or lh in begin_op, log_write, end_op or on
\* the commit path holds the lock.
C14_AllUnderLock ==
  \A t \in Threads : pc[t] \in LockedPcs \cup CommitPathPcs => lock = t

\* C14, amended: a thread about to read or write outstanding, committing or
\* lh in begin_op, log_write or end_op holds the lock; a thread on the
\* commit path reads and writes lh without holding the lock, and while it
\* does committing = 1, outstanding = 0 and no other thread is at a position
\* of log_write, end_op or the commit path that accesses lh.
C14_LockOrCommitting ==
  \A t \in Threads :
    /\ pc[t] \in LockedPcs => lock = t
    /\ pc[t] \in CommitPathPcs =>
         /\ lock # t
         /\ committing = 1
         /\ outstanding = 0
         /\ \A u \in Threads \ {t} :
              pc[u] \notin CommitPathPcs \cup {"lw_body", "end_body", "end_fin"}

\* the committing thread has stored lh.n = 0 and is about to write the
\* header that still has n > 0 on disk, while another thread holds the lock
\* inside begin_op
C14_Witness ==
  \E t, u \in Threads :
    /\ pc[t] = "write_clear" /\ lh.n = 0 /\ dhead.n = LOGSIZE
    /\ pc[u] = "begin_loop" /\ lock = u

\* C15: batched commit.  An end_op goes on to commit() exactly when its
\* decrement brings outstanding to 0, and then it has set committing; no
\* thread enters commit() in another way.  An end_op that leaves
\* outstanding > 0 returns having written nothing to disk and changed
\* neither lh nor committing: besides the decrement it only makes the
\* threads asleep in begin_op runnable.
C15_BatchedCommit ==
  [][\A t \in Threads :
       /\ (pc[t] # "commit" /\ pc'[t] = "commit") => pc[t] = "end_body"
       /\ (pc[t] = "end_body" /\ pc'[t] # "end_body" /\ crashes' = crashes) =>
            /\ outstanding' = outstanding - 1
            /\ (pc'[t] = "commit") <=> (outstanding' = 0)
            /\ outstanding' = 0 => committing' = 1
            /\ outstanding' > 0 =>
                 /\ pc'[t] = "idle"
                 /\ UNCHANGED <<dhead, dlog, home>>
                 /\ UNCHANGED <<lh, committing, cache, pin>>
                 /\ \A u \in Threads \ {t} :
                      pc'[u] = IF pc[u] = "begin_sleep"
                                 THEN "begin_acquire" ELSE pc[u]]_vars

\* of two system calls of one transaction the first has ended without
\* committing, its block still waiting in the log, and has woken a third
\* thread that slept in begin_op; the second is still running
C15_Witness ==
  \E t, u, w \in Threads :
    /\ pc[t] = "idle" /\ opBlocks[t] # {} /\ opBlocks[t] \subseteq pendingLog
    /\ pc[u] = "in_op"
    /\ pc[w] = "begin_acquire"
    /\ outstanding = 1 /\ committing = 0
    /\ lh.n = LOGSIZE /\ dhead.n = 0

\* C16: repeated crashes are harmless.  After a crash that struck commit()
\* during install_trans or before its header-clearing write, followed by
\* any number of crashes during recovery: while a recovery is under way the
\* disk either still carries the committed header with every slot it names
\* holding the transaction's contents, or has the header cleared and the
\* home blocks as the transaction logged them; and once initlog has
\* completed the home blocks are as the transaction logged them and the
\* on-disk header has n = 0.
C16_RepeatedCrashes ==
  crashAt \in {"install", "clear", "write_clear"} =>
    IF Booted
      THEN home = txPost /\ dhead.n = 0
      ELSE IF dhead.n > 0
        THEN \A i \in Slots : i < dhead.n => dlog[i] = txPost[dhead.block[i]]
        ELSE home = txPost

\* a crash struck install_trans after its first write, a second crash
\* struck the recovery that followed, and the next initlog has completed
C16_Witness ==
  /\ Booted
  /\ crashAt = "install"
  /\ recCrashes >= 1
  /\ \A b \in Blocks : txPost[b] # preTx[b]
  /\ crashHome # preTx /\ crashHome # txPost
  /\ home = txPost
  /\ dhead.n = 0

\* C17: empty transaction.  A commit() entered with lh.n = 0 returns at
\* once, having changed neither the on-disk header, nor a log slot, nor a
\* home block, nor lh; a thread reaches the disk-writing steps of commit()
\* only from a commit() entered with lh.n > 0, and after boot the disk
\* changes only when a thread is at such a step; the end_op that ran the
\* commit then resets committing to 0 and makes every thread asleep in
\* begin_op runnable.
C17_EmptyTransaction ==
  [][\A t \in Threads :
       /\ (pc[t] = "commit" /\ lh.n = 0 /\ pc'[t] # "commit" /\ crashes' = crashes) =>
            /\ pc'[t] = "end_acquire2"
            /\ UNCHANGED <<dhead, dlog, home>>
            /\ UNCHANGED <<lh, cache, pin, committing>>
       /\ (pc[t] \notin CommitPcs /\ pc'[t] \in CommitPcs) =>
            (pc[t] = "commit" /\ lh.n > 0)
       /\ pc[t] \in CommitPcs \ {"write_clear"} => lh.n > 0
       /\ (Booted /\ <<dhead, dlog, home>>' # <<dhead, dlog, home>>) =>
            \E u \in Threads : pc[u] \in CommitPcs
       /\ (pc[t] = "end_fin" /\ pc'[t] # "end_fin" /\ crashes' = crashes) =>
            /\ committing' = 0
            /\ \A u \in Threads \ {t} :
                 pc'[u] = IF pc[u] = "begin_sleep"
                            THEN "begin_acquire" ELSE pc[u]]_vars

\* the only commit since boot was of an empty transaction and has returned
\* with the disk still as mkfs left it, while another thread sleeps in
\* begin_op waiting for committing to be reset
C17_Witness ==
  /\ crashes = 0
  /\ committed = NeverCommitted
  /\ committing = 1
  /\ lh.n = 0
  /\ dhead = ZeroHeader /\ dlog = [i \in Slots |-> 0] /\ home = [b \in Blocks |-> 0]
  /\ \E t, u \in Threads : pc[t] = "end_acquire2" /\ pc[u] = "begin_sleep"

\* C18 as stated: pin balance.  For every block the bpin calls of log_write
\* minus the bunpin calls of install_trans are never negative, are exactly
\* 1 while the block is among lh.block[0..lh.n) and not yet installed by
\* the running commit, and are 0 for every block whenever lh.n = 0 and
\* committing = 0; recovery unpins nothing.
C18_PinBalance ==
  /\ \A b \in Blocks : pin[b] >= 0
  /\ \A i \in Slots : (i < lh.n /\ ~Installed(i)) => pin[lh.block[i]] = 1
  /\ (lh.n = 0 /\ committing = 0) => pin = ZeroPin
  /\ ~Booted => pin = ZeroPin

\* C18, amended: the same, the count being exactly 1 for the blocks among
\* lh.block[0..lh.n) not yet installed by the running commit once initlog
\* has completed; during recovery the blocks read_head loads into lh have a
\* count of 0.
C18_PinBalanceAfterBoot ==
  /\ \A b \in Blocks : pin[b] >= 0
  /\ Booted =>
       \A i \in Slots : (i < lh.n /\ ~Installed(i)) => pin[lh.block[i]] = 1
  /\ (lh.n = 0 /\ committing = 0) => pin = ZeroPin
  /\ ~Booted => pin = ZeroPin

\* recovery is replaying a committed transaction of two blocks and has
\* installed the first: both are in lh and neither is pinned
C18_Witness ==
  /\ bootpc = "install"
  /\ btail = 1
  /\ lh.n = LOGSIZE
  /\ lh.block[0] # lh.block[1]
  /\ pin = ZeroPin

\* C19: the committed log is never overwritten.  A log data slot is written
\* only while the on-disk header has n = 0; and whenever the on-disk header
\* has n > 0, across crashes and recoveries too, each of the first n log
\* slots holds the contents the commit logged for the home block the
\* header names at that index.
C19_CommittedLogKept ==
  /\ [][dlog' # dlog => dhead.n = 0]_vars
  /\ [](dhead.n > 0 =>
          \A i \in Slots : i < dhead.n => dlog[i] = txPost[dhead.block[i]])

\* a crash has struck a committed transaction of two blocks of which none
\* is installed, and the reboot is about to read the header: the log still
\* holds the transaction
C19_Witness ==
  /\ crashes >= 1
  /\ bootpc = "read_head"
  /\ dhead.n = LOGSIZE
  /\ \A b \in Blocks : home[b] # txPost[b]
  /\ \A i \in Slots : dlog[i] = txPost[dhead.block[i]]

\* the positions of a thread that will still call wakeup: inside an
\* operation (it will call end_op), or inside end_op up to line 158
WakerPcs ==
  {"in_op", "lw_body", "end_body", "commit", "end_acquire2", "end_fin"}
    \cup CommitPcs

\* C20: deadlock freedom, no lost wakeup.  After initlog: a thread is asleep
\* in begin_op only while some thread remains that will call wakeup, and
\* never while outstanding = 0 and committing = 0; and whenever
\* outstanding = 0 and committing = 0 the log is empty and the admission
\* test of begin_op passes, so that a woken caller is admitted.
C20_NoLostWakeup ==
  Booted =>
    /\ (\E t \in Threads : pc[t] = "begin_sleep") =>
          /\ \E u \in Threads : pc[u] \in WakerPcs
          /\ ~(outstanding = 0 /\ committing = 0)
    /\ (outstanding = 0 /\ committing = 0) =>
          /\ lh.n = 0
          /\ ~(MustWait(committing) \/ NoSpace(lh.n, outstanding))

\* one thread slept in begin_op for lack of log space and another because a
\* commit was running; the commit has finished, its wakeup has made both
\* runnable and the log is free for them
C20_Witness ==
  /\ outstanding = 0 /\ committing = 0 /\ lock = 0
  /\ committed # NeverCommitted
  /\ \E t, u \in Threads : t # u /\ pc[t] = "begin_acquire" /\ pc[u] = "begin_acquire"

====
